---- MODULE Spec2Model ----
(***************************************************************************)
(* Food-delivery order service (src/src/server.go): the HTTP handlers, the *)
(* Redis look-aside cache in front of menu.json, the Kafka order topic and *)
(* the notification topic.                                                 *)
(*                                                                         *)
(* Every request runs on its own goroutine (a worker); a worker's calls to *)
(* Redis, to the file system and to Kafka are the atomic steps, and steps  *)
(* of different workers interleave freely.  Redis and Kafka may fail at    *)
(* any call; menu.json may be rewritten and a cache entry may expire       *)
(* between any two steps.                                                  *)
(*                                                                         *)
(* Prices are float64 in the source; the model uses whole numbers, which   *)
(* float64 adds and multiplies exactly in the range used here.             *)
(***************************************************************************)
EXTENDS Integers, Sequences, FiniteSets, TLC

(***************************************************************************)
(* Bounds of the model.                                                    *)
(***************************************************************************)
NumWorkers == 2        \* request goroutines that can be in flight at once
MaxRequests == 2       \* requests served in one behaviour
MaxId == 2             \* order ids the generator is seen to draw: 0 .. MaxId-1
MaxStops == 1          \* stops of the process (a crash, log.Fatalf) in the relay's runs

Workers == 1 .. NumWorkers

(***************************************************************************)
(* Program constants.                                                      *)
(***************************************************************************)
OrderIdRange == 10000  \* rand.Intn(10000)
StatusOK == 200
StatusBadRequest == 400
StatusInternalServerError == 500

(***************************************************************************)
(* Go values.  A slice is nil or a sequence of elements.                   *)
(***************************************************************************)
NilSlice == [nil |-> TRUE, elems |-> <<>>]

Slice(s) == [nil |-> FALSE, elems |-> s]

MenuItem(id, name, price, desc) ==
    [ID |-> id, Name |-> name, Price |-> price, Description |-> desc]

RestaurantMenu(rid, menu) == [RestaurantID |-> rid, Menu |-> menu]

ZeroMenu == RestaurantMenu("", NilSlice)

OrderItem(mid, q) == [MenuID |-> mid, Quantity |-> q]

(***************************************************************************)
(* encoding/json.  A JSON document is null, a string, a number, an array   *)
(* or an object; an object is the sequence of its members in the order     *)
(* they are written.                                                       *)
(***************************************************************************)
JNull == [t |-> "null"]

JStr(s) == [t |-> "str", s |-> s]

JNum(n) == [t |-> "num", n |-> n]

JArr(a) == [t |-> "arr", a |-> a]

JObj(m) == [t |-> "obj", m |-> m]

\* The value of the last member named k of object o, or null: the decoder
\* lets a later member overwrite an earlier one and leaves a field with no
\* member at its zero value.
RECURSIVE JLookup(_, _, _)
JLookup(m, k, i) ==
    IF i = 0 THEN JNull
    ELSE IF m[i][1] = k THEN m[i][2]
    ELSE JLookup(m, k, i - 1)

JField(o, k) == JLookup(o.m, k, Len(o.m))

JStrOf(v) == IF v.t = "str" THEN v.s ELSE ""

JNumOf(v) == IF v.t = "num" THEN v.n ELSE 0

MarshalItem(it) ==
    JObj(<< <<"id", JStr(it.ID)>>, <<"name", JStr(it.Name)>>,
            <<"price", JNum(it.Price)>>, <<"description", JStr(it.Description)>> >>)

\* Mutant: the price is decoded from a member the documents do not have.
UnmarshalItemNoPrice(v) ==
    MenuItem(JStrOf(JField(v, "id")), JStrOf(JField(v, "name")),
             JNumOf(JField(v, "cost")), JStrOf(JField(v, "description")))

UnmarshalItem(v) ==
    MenuItem(JStrOf(JField(v, "id")), JStrOf(JField(v, "name")),
             JNumOf(JField(v, "price")), JStrOf(JField(v, "description")))

\* Mutant: the items are written without their price.
MarshalMenuNoPrice(menu) ==
    JObj(<< <<"restaurant_id", JStr(menu.RestaurantID)>>,
            <<"menu", IF menu.Menu.nil THEN JNull
                      ELSE JArr([i \in 1 .. Len(menu.Menu.elems) |->
                                    JObj(SubSeq(MarshalItem(menu.Menu.elems[i]).m, 1, 2))])>> >>)

\* json.Marshal(RestaurantMenu): the fields in declaration order, a nil
\* slice as null.
MarshalMenu(menu) ==
    JObj(<< <<"restaurant_id", JStr(menu.RestaurantID)>>,
            <<"menu", IF menu.Menu.nil THEN JNull
                      ELSE JArr([i \in 1 .. Len(menu.Menu.elems) |->
                                    MarshalItem(menu.Menu.elems[i])])>> >>)

\* Whether json.Unmarshal into a RestaurantMenu reports no error: the
\* document is an object (or null) whose members have the fields' types.
ItemValid(v) ==
    /\ v.t \in {"obj", "null"}
    /\ v.t = "obj" =>
          /\ JField(v, "id").t \in {"str", "null"}
          /\ JField(v, "name").t \in {"str", "null"}
          /\ JField(v, "price").t \in {"num", "null"}
          /\ JField(v, "description").t \in {"str", "null"}

MenuValid(v) ==
    /\ v.t \in {"obj", "null"}
    /\ v.t = "obj" =>
          /\ JField(v, "restaurant_id").t \in {"str", "null"}
          /\ JField(v, "menu").t \in {"arr", "null"}
          /\ JField(v, "menu").t = "arr" =>
                \A i \in 1 .. Len(JField(v, "menu").a) : ItemValid(JField(v, "menu").a[i])

UnmarshalItemOrZero(v) ==
    IF v.t = "obj" THEN UnmarshalItem(v) ELSE MenuItem("", "", 0, "")

\* json.Unmarshal(doc, &menu) for a valid document, menu starting zero.
UnmarshalMenu(v) ==
    IF v.t # "obj" THEN ZeroMenu
    ELSE RestaurantMenu(
             JStrOf(JField(v, "restaurant_id")),
             IF JField(v, "menu").t = "arr"
             THEN Slice([i \in 1 .. Len(JField(v, "menu").a) |->
                            UnmarshalItemOrZero(JField(v, "menu").a[i])])
             ELSE NilSlice)

(***************************************************************************)
(* menu.json, the catalog source.  The file is unreadable, is not JSON, or *)
(* holds one restaurant's menu, written with the members in the seed       *)
(* file's own order.                                                       *)
(***************************************************************************)
Unreadable == [kind |-> "unreadable", rec |-> ZeroMenu]

Malformed == [kind |-> "malformed", rec |-> ZeroMenu]

SeedFile(rec) == [kind |-> "json", rec |-> rec]

SeedItemText(it) ==
    JObj(<< <<"description", JStr(it.Description)>>, <<"price", JNum(it.Price)>>,
            <<"name", JStr(it.Name)>>, <<"id", JStr(it.ID)>> >>)

SeedText(rec) ==
    JObj(<< <<"menu", IF rec.Menu.nil THEN JNull
                      ELSE JArr([i \in 1 .. Len(rec.Menu.elems) |->
                                    SeedItemText(rec.Menu.elems[i])])>>,
            <<"restaurant_id", JStr(rec.RestaurantID)>> >>)

\* The menus menu.json is seen to hold: the seed menu of restaurant r1, the
\* same menu after a price change, and the menu of another restaurant.
MenuR1 ==
    RestaurantMenu("r1", Slice(<<MenuItem("m1", "Pad Thai", 10, "noodles"),
                                 MenuItem("m2", "Iced Tea", 5, "")>>))

MenuR1Repriced ==
    RestaurantMenu("r1", Slice(<<MenuItem("m1", "Pad Thai", 12, "noodles"),
                                 MenuItem("m2", "Iced Tea", 5, "")>>))

MenuR2 == RestaurantMenu("r2", NilSlice)

SeedMenus == {MenuR1, MenuR1Repriced, MenuR2}

MenuFiles == {Unreadable, Malformed} \cup {SeedFile(m) : m \in SeedMenus}

(***************************************************************************)
(* Requests.  Bind fails on a body that is not JSON; a member that is      *)
(* missing leaves its field zero ("" or a nil slice).                      *)
(***************************************************************************)
RestaurantIds == {"r1", "r2"}

Request(op, ok, rid, items, oid, rider, recipient) ==
    [op |-> op, bindOk |-> ok, RestaurantID |-> rid, Items |-> items,
     OrderID |-> oid, RiderID |-> rider, Recipient |-> recipient]

NoRequest == Request("none", TRUE, "", NilSlice, "", "", "")

ItemLists ==
    { NilSlice,
      Slice(<<OrderItem("m1", 2), OrderItem("m2", 1), OrderItem("m9", 3)>>) }

MenuRequests ==
    { Request("getMenu", TRUE, rid, NilSlice, "", "", "") : rid \in RestaurantIds \cup {""} }

OrderRequests ==
    { Request("placeOrder", FALSE, "", NilSlice, "", "", "") } \cup
    { Request("placeOrder", TRUE, rid, items, "", "", "") :
          rid \in RestaurantIds \cup {""}, items \in ItemLists }

\* The identifiers a later request names: none, or an order id / rider id.
IdPairs == {<<"0", "x1">>, <<"", "x1">>, <<"0", "">>}

AcceptRequests ==
    { Request("acceptOrder", FALSE, "", NilSlice, "", "", "") } \cup
    { Request("acceptOrder", TRUE, IF p[2] = "" THEN "" ELSE "r1", NilSlice, p[1], "", "") :
          p \in IdPairs }

PickupRequests ==
    { Request("confirmPickup", FALSE, "", NilSlice, "", "", "") } \cup
    { Request("confirmPickup", TRUE, "", NilSlice, p[1], IF p[2] = "" THEN "" ELSE "rd1", "") :
          p \in IdPairs }

DeliverRequests ==
    { Request("confirmDelivery", FALSE, "", NilSlice, "", "", "") } \cup
    { Request("confirmDelivery", TRUE, "", NilSlice, p[1], IF p[2] = "" THEN "" ELSE "rd1", "") :
          p \in IdPairs }

\* A body that fails to bind may still name a recipient (a field of the
\* wrong type after it, or a content type echo does not bind).
NotificationRequests ==
    { Request("sendNotification", FALSE, "", NilSlice, "", "", rcp) : rcp \in {"", "customer"} } \cup
    { Request("sendNotification", TRUE, "", NilSlice, "0", "", rcp) :
          rcp \in {"customer", "restaurant", "rider", "admin"} }

(***************************************************************************)
(* Responses: c.JSON(code, body).                                          *)
(***************************************************************************)
Response(code, err, status, oid, menu) ==
    [code |-> code, error |-> err, status |-> status, order_id |-> oid, menu |-> menu]

NoResponse == Response(0, "", "", "", ZeroMenu)

ErrorResponse(code, err) == Response(code, err, "", "", ZeroMenu)

StatusResponse(status) == Response(StatusOK, "", status, "", ZeroMenu)

(***************************************************************************)
(* The state.                                                              *)
(***************************************************************************)
VARIABLES
    menuFile,        \* the content of menu.json
    store,           \* Redis: key -> the document stored under it, or Absent
    orders,          \* the topic "orders": the payloads appended, in offset order
    notifications,   \* the topic "order-delivered"
    nreq,            \* requests begun so far
    pc,              \* per worker: where its handler stands
    req,             \* per worker: the request bound by c.Bind
    menu,            \* per worker: the handler's menu / menuData local
    order,           \* per worker: placeOrder's order local (id, total, status)
    resp,            \* per worker: the response written
    fx,              \* per worker: what the call in flight has done so far
    proc,            \* the process: "up", "fatal" (log.Fatalf) or "crashed"
    committed,       \* the offset committed for "notification-service-group"
    relay,           \* consumeOrderDeliveredEvent: its place, its reader, its msg
    hist             \* what the relay has done so far

vars == <<menuFile, store, orders, notifications, nreq, pc, req, menu, order, resp, fx,
          proc, committed, relay, hist>>

relayVars == <<proc, committed, relay, hist>>

Absent == [t |-> "absent"]

ZeroOrder == [OrderID |-> "", TotalAmount |-> 0, Status |-> ""]

\* What one call has done so far: how its redisClient.Get ended ("" before
\* it, then "redis.Nil", "error" or "hit"), how often it read menu.json and
\* called Set, the entries its steps changed in the store, the payloads
\* its steps appended to each topic, whether its publish returned nil, the
\* file content it read, the document it handed to Set, and whether its
\* key's entry expired while it ran.
NoEffects ==
    [read |-> "", loads |-> 0, sets |-> 0, cache |-> {}, pubs |-> <<>>,
     notis |-> <<>>, pubOk |-> FALSE, cat |-> Unreadable, wrote |-> Absent,
     stale |-> FALSE]

\* consumeOrderDeliveredEvent before its first ReadMessage: the statement it
\* stands at, the number of messages its reader has fetched, the number of
\* the message in msg (0: none) and whether ReadMessage returned an error.
RelayStart(offset) ==
    [at |-> "ReadMessage", offset |-> offset, msg |-> 0, err |-> FALSE]

\* What the relay has done so far: for each message of "order-delivered",
\* the number of the message of "orders" it was made from; the messages
\* that were in msg when the process stopped; how often the process
\* stopped; whether a publish of a notification returned an error.
NoHistory == [derived |-> <<>>, lost |-> {}, stops |-> 0, dropped |-> FALSE]

InitRelayVars ==
    /\ proc = "up"
    /\ committed = 0
    /\ relay = RelayStart(0)
    /\ hist = NoHistory

Init ==
    /\ InitRelayVars
    /\ menuFile \in MenuFiles
    /\ store = [k \in RestaurantIds |-> Absent]
    /\ orders = <<>>
    /\ notifications = <<>>
    /\ nreq = 0
    /\ pc = [w \in Workers |-> "idle"]
    /\ req = [w \in Workers |-> NoRequest]
    /\ menu = [w \in Workers |-> ZeroMenu]
    /\ order = [w \in Workers |-> ZeroOrder]
    /\ resp = [w \in Workers |-> NoResponse]
    /\ fx = [w \in Workers |-> NoEffects]

(***************************************************************************)
(* Pure parts of the handlers.                                             *)
(***************************************************************************)
\* fmt.Sprintf: the literal pieces of the format and the arguments put in
\* their places, in order.  %d of an int and %.2f of a whole float64:
FormatInt(n) == ToString(n)

FormatFloat2(x) == ToString(x) \o ".00"

\* rand.Intn(n): some integer of [0, n); the model draws below MaxId.
Intn(n) == {i \in 0 .. (MaxId - 1) : i < n}

\* placeOrder's pricing loops: every menu entry whose ID equals the item's
\* MenuID adds Price * Quantity.
RECURSIVE MenuLoop(_, _, _, _)
MenuLoop(item, entries, j, acc) ==
    IF j > Len(entries) THEN acc
    ELSE MenuLoop(item, entries, j + 1,
                  IF item.MenuID = entries[j].ID
                  THEN acc + entries[j].Price * item.Quantity
                  ELSE acc)

RECURSIVE ItemLoop(_, _, _, _)
ItemLoop(items, entries, i, acc) ==
    IF i > Len(items) THEN acc
    ELSE ItemLoop(items, entries, i + 1, MenuLoop(items[i], entries, 1, acc))

totalAmount(items, m) == ItemLoop(items.elems, m.Menu.elems, 1, 0)

\* Mutant: the message is formatted before the total is filled in.
publishOrderEventZeroTotal(o, rid) ==
    <<"Order Created: ", o.OrderID, " | Restaurant: ", rid, " | Total: ",
      FormatFloat2(0)>>

publishOrderEvent(o, rid) ==
    <<"Order Created: ", o.OrderID, " | Restaurant: ", rid, " | Total: ",
      FormatFloat2(o.TotalAmount)>>

publishAcceptOrderEvent(orderID) == <<"Order ", orderID, " Accept Order">>

publishConfirmPickupEvent(orderID) == <<"Order ", orderID, " Confirm Pickup">>

publishOrderDeliveredEvent(orderID) == <<"Order ", orderID, " Delivered">>

\* Mutant: placeOrder checks the restaurant id alone.
OrderInvalidIdOnly(r) == r.RestaurantID = ""

\* The handlers' validation of a bound request.
OrderInvalid(r) == r.RestaurantID = "" \/ r.Items.nil

AcceptInvalid(r) == r.OrderID = "" \/ r.RestaurantID = ""

DeliverInvalid(r) == r.OrderID = "" \/ r.RiderID = ""

\* Mutant: the check leaves out one of the three recipients.
RecipientInvalidNoRider(r) == r.Recipient # "customer" /\ r.Recipient # "restaurant"

RecipientInvalid(r) ==
    r.Recipient # "customer" /\ r.Recipient # "restaurant" /\ r.Recipient # "rider"

\* What reading and parsing menu.json gives: an error, or the menu.
FileError(f) ==
    \/ f.kind = "unreadable"
    \/ f.kind = "malformed"
    \/ ~MenuValid(SeedText(f.rec))

FileMenu(f) == UnmarshalMenu(SeedText(f.rec))

\* Mutant: the restaurant id of the file is not compared.
NotFoundNever(m, restaurantID) == FALSE

\* menuData.RestaurantID != restaurantID
NotFound(m, restaurantID) == m.RestaurantID # restaurantID

\* redisClient.Get(ctx, key).Result(): the document, redis.Nil for a key
\* with no entry, or another error when Redis fails.
RedisGet(key, failing) ==
    IF failing THEN [err |-> "error", val |-> Absent]
    ELSE IF store[key] = Absent THEN [err |-> "redis.Nil", val |-> Absent]
    ELSE [err |-> "", val |-> store[key]]

\* Mutant: every error of the read is taken for a miss.
MissOnAnyError(got) == got.err # ""

\* Mutant: the cached entry is never used.
MissAlways(got) == TRUE

\* err == redis.Nil
Miss(got) == got.err = "redis.Nil"

\* How the read ended, for the call's record.
ReadOutcome(got) == IF got.err = "" THEN "hit" ELSE got.err

\* Mutant: the entry is written under one fixed key, as the restaurant and
\* rider handlers do.
RedisSetFixedKey(key, doc, failing) ==
    IF failing THEN store ELSE [store EXCEPT !["r1"] = doc]

\* redisClient.Set(ctx, key, doc, time.Hour) with its result dropped: the
\* store after it, the entry written unless Redis fails.
RedisSet(key, doc, failing) ==
    IF failing THEN store ELSE [store EXCEPT ![key] = doc]

\* kafkaWriter.WriteMessages: nil after the message is appended; an error
\* with the message not appended, or appended and the acknowledgement lost.
WriteOutcomes == {"ok", "lost", "ackLost"}

\* Mutant: a publish that writes the message twice.
WriteMessagesTwice(topic, message, out) ==
    IF out = "lost" THEN topic ELSE Append(Append(topic, message), message)

WriteMessages(topic, message, out) ==
    IF out = "lost" THEN topic ELSE Append(topic, message)

(***************************************************************************)
(* Steps.  A step first says what it does to Redis, the file and the       *)
(* topics, then Local(w, ...) what it does to the worker's own state; the  *)
(* worker's record of the call is brought up to date from what the step    *)
(* did.                                                                    *)
(***************************************************************************)
Appended(old, new) == SubSeq(new, Len(old) + 1, Len(new))

Changed(old, new) == {<<k, new[k]>> : k \in {j \in DOMAIN old : new[j] # old[j]}}

Local(w, p, m, o, r, e) ==
    /\ proc = "up"
    /\ UNCHANGED relayVars
    /\ pc' = [pc EXCEPT ![w] = p]
    /\ menu' = [menu EXCEPT ![w] = m]
    /\ order' = [order EXCEPT ![w] = o]
    /\ resp' = [resp EXCEPT ![w] = r]
    /\ fx' = [fx EXCEPT ![w] =
                 [e EXCEPT !.pubs = @ \o Appended(orders, orders'),
                           !.notis = @ \o Appended(notifications, notifications'),
                           !.cache = @ \cup Changed(store, store')]]

\* e.POST / e.GET dispatch: a request is bound on a free worker.
Begin(w, r) ==
    /\ pc[w] \in {"idle", "done"}
    /\ nreq < MaxRequests
    /\ nreq' = nreq + 1
    /\ req' = [req EXCEPT ![w] = r]

Reply(w, e, r) == Local(w, "done", ZeroMenu, ZeroOrder, r, e)

\* Mutant: the handler publishes before it validates.
BadRequestAfterPublish(w, err) ==
    /\ orders' = Append(orders, <<"Order ", req'[w].OrderID, " Accept Order">>)
    /\ Reply(w, NoEffects, ErrorResponse(StatusBadRequest, err))

BadRequest(w, err) ==
    /\ UNCHANGED orders
    /\ Reply(w, NoEffects, ErrorResponse(StatusBadRequest, err))

\* A publish of one message to the order topic and the handler's response.
PublishAndReply(w, message, okResponse, failure) ==
    \E out \in WriteOutcomes :
       /\ orders' = WriteMessages(orders, message, out)
       /\ Reply(w, [NoEffects EXCEPT !.pubOk = (out = "ok")],
                IF out = "ok" THEN okResponse
                ELSE ErrorResponse(StatusInternalServerError, failure))

acceptOrder(w, r) ==
    /\ Begin(w, r)
    /\ UNCHANGED <<menuFile, store, notifications>>
    /\ IF ~r.bindOk THEN BadRequest(w, "Invalid request body")
       ELSE IF AcceptInvalid(r) THEN BadRequest(w, "Missing order_id or restaurant_id")
       ELSE PublishAndReply(w, publishAcceptOrderEvent(r.OrderID),
                            StatusResponse("accepted"), "failed to publish to Kafka")

confirmPickup(w, r) ==
    /\ Begin(w, r)
    /\ UNCHANGED <<menuFile, store, notifications>>
    /\ IF ~r.bindOk THEN BadRequest(w, "Invalid request")
       ELSE PublishAndReply(w, publishConfirmPickupEvent(r.OrderID),
                            StatusResponse("picked_up"), "failed to publish to Kafka")

confirmDelivery(w, r) ==
    /\ Begin(w, r)
    /\ UNCHANGED <<menuFile, store, notifications>>
    /\ IF ~r.bindOk THEN BadRequest(w, "Invalid request")
       ELSE IF DeliverInvalid(r) THEN BadRequest(w, "Missing order_id or rider_id")
       ELSE PublishAndReply(w, publishOrderDeliveredEvent(r.OrderID),
                            StatusResponse("Delivered"), "failed to publish to Kafka")

sendNotification(w, r) ==
    /\ Begin(w, r)
    /\ UNCHANGED <<menuFile, store, notifications>>
    /\ IF ~r.bindOk THEN BadRequest(w, "Invalid request")
       ELSE IF RecipientInvalid(r) THEN BadRequest(w, "Invalid recipient")
       ELSE /\ UNCHANGED orders
            /\ Reply(w, NoEffects, StatusResponse("sent"))

(***************************************************************************)
(* The handlers behind the cache.                                          *)
(***************************************************************************)
\* getMenuFromCache, called by placeOrder, up to its return or its call of
\* fetchMenuFromFile.
getMenuFromCache(w, restaurantID) ==
    \E failing \in BOOLEAN :
       LET got == RedisGet(restaurantID, failing)
           failed == ErrorResponse(StatusInternalServerError,
                                   "Failed to fetch restaurant menu")
           e == [NoEffects EXCEPT !.read = ReadOutcome(got)]
       IN  IF Miss(got)
           THEN Local(w, "fetchMenuFromFile", ZeroMenu, ZeroOrder, NoResponse, e)
           ELSE IF got.err # "" THEN Reply(w, e, failed)
           ELSE IF ~MenuValid(got.val) THEN Reply(w, e, failed)
           ELSE Local(w, "price", UnmarshalMenu(got.val), ZeroOrder, NoResponse, e)

\* placeOrder up to and including getMenuFromCache's read of Redis.
placeOrder(w, r) ==
    /\ Begin(w, r)
    /\ UNCHANGED <<menuFile, store, orders, notifications>>
    /\ IF ~r.bindOk THEN Reply(w, NoEffects,
                               ErrorResponse(StatusBadRequest, "Invalid order details"))
       ELSE IF OrderInvalid(r)
       THEN Reply(w, NoEffects,
                  ErrorResponse(StatusBadRequest, "restaurant_id and items are required"))
       ELSE getMenuFromCache(w, r.RestaurantID)

\* fetchMenuFromFile up to the comparison of the restaurant id.
fetchMenuFromFile(w) ==
    /\ pc[w] = "fetchMenuFromFile"
    /\ UNCHANGED <<menuFile, store, orders, notifications, nreq, req>>
    /\ LET e == [fx[w] EXCEPT !.loads = @ + 1, !.cat = menuFile]
           failed == ErrorResponse(StatusInternalServerError,
                                   "Failed to fetch restaurant menu")
       IN  IF FileError(menuFile) THEN Reply(w, e, failed)
           ELSE IF NotFound(FileMenu(menuFile), req[w].RestaurantID)
           THEN Reply(w, e, failed)
           ELSE Local(w, "set", FileMenu(menuFile), ZeroOrder, NoResponse, e)

\* fetchMenuFromFile's json.Marshal, Set and return.
fetchMenuFromFileSet(w) ==
    /\ pc[w] = "set"
    /\ UNCHANGED <<menuFile, orders, notifications, nreq, req>>
    /\ \E failing \in BOOLEAN :
          /\ store' = RedisSet(req[w].RestaurantID, MarshalMenu(menu[w]), failing)
          /\ Local(w, "price", menu[w], ZeroOrder, NoResponse,
                   [fx[w] EXCEPT !.sets = @ + 1, !.wrote = MarshalMenu(menu[w])])

\* placeOrder from the pricing loop to the response.
placeOrderPublish(w) ==
    /\ pc[w] = "price"
    /\ UNCHANGED <<menuFile, store, notifications, nreq, req>>
    /\ \E n \in Intn(OrderIdRange), out \in WriteOutcomes :
          LET o == [OrderID |-> FormatInt(n),
                    TotalAmount |-> totalAmount(req[w].Items, menu[w]),
                    Status |-> "created"]
          IN  /\ orders' = WriteMessages(orders, publishOrderEvent(o, req[w].RestaurantID), out)
              /\ Local(w, "done", menu[w], o,
                       IF out = "ok"
                       THEN Response(StatusOK, "", o.Status, o.OrderID, ZeroMenu)
                       ELSE ErrorResponse(StatusInternalServerError,
                                          "Failed to publish order event"),
                       [fx[w] EXCEPT !.pubOk = (out = "ok")])

\* getMenu up to and including its read of Redis; a hit is answered at once.
getMenu(w, r) ==
    /\ Begin(w, r)
    /\ UNCHANGED <<menuFile, store, orders, notifications>>
    /\ IF r.RestaurantID = ""
       THEN Reply(w, NoEffects, ErrorResponse(StatusBadRequest, "restaurant_id is required"))
       ELSE \E failing \in BOOLEAN :
               LET got == RedisGet(r.RestaurantID, failing)
                   e == [NoEffects EXCEPT !.read = ReadOutcome(got)]
               IN  IF Miss(got)
                   THEN Local(w, "fetchMenuFromJSON", ZeroMenu, ZeroOrder, NoResponse, e)
                   ELSE IF got.err # ""
                   THEN Reply(w, e, ErrorResponse(StatusInternalServerError, "Redis error"))
                   ELSE IF ~MenuValid(got.val)
                   THEN Reply(w, e, ErrorResponse(StatusInternalServerError,
                                                  "Failed to parse cached menu"))
                   ELSE Local(w, "done", UnmarshalMenu(got.val), ZeroOrder,
                              Response(StatusOK, "", "", "", UnmarshalMenu(got.val)), e)

\* getMenu's miss path: fetchMenuFromJSON.
fetchMenuFromJSON(w) ==
    /\ pc[w] = "fetchMenuFromJSON"
    /\ UNCHANGED <<menuFile, store, orders, notifications, nreq, req>>
    /\ LET e == [fx[w] EXCEPT !.loads = @ + 1, !.cat = menuFile]
           failed == ErrorResponse(StatusInternalServerError, "Failed to fetch menu")
       IN  IF FileError(menuFile) THEN Reply(w, e, failed)
           ELSE IF NotFound(FileMenu(menuFile), req[w].RestaurantID)
           THEN Reply(w, e, failed)
           ELSE Local(w, "getMenuSet", FileMenu(menuFile), ZeroOrder, NoResponse, e)

\* getMenu's json.Marshal and Set on the miss path.
getMenuSet(w) ==
    /\ pc[w] = "getMenuSet"
    /\ UNCHANGED <<menuFile, orders, notifications, nreq, req>>
    /\ \E failing \in BOOLEAN :
          /\ store' = RedisSet(req[w].RestaurantID, MarshalMenu(menu[w]), failing)
          /\ Local(w, "getMenuReply", menu[w], ZeroOrder, NoResponse,
                   [fx[w] EXCEPT !.sets = @ + 1, !.wrote = MarshalMenu(menu[w])])

\* getMenu's response on the miss path.
getMenuReply(w) ==
    /\ pc[w] = "getMenuReply"
    /\ UNCHANGED <<menuFile, store, orders, notifications, nreq, req>>
    /\ Local(w, "done", menu[w], ZeroOrder,
             Response(StatusOK, "", "", "", menu[w]), fx[w])

(***************************************************************************)
(* The environment: menu.json is rewritten; a cache entry reaches its TTL. *)
(***************************************************************************)
InFlight(w) == pc[w] \notin {"idle", "done"}

RewriteMenuFile ==
    /\ \E f \in MenuFiles \ {menuFile} : menuFile' = f
    /\ UNCHANGED <<store, orders, notifications, nreq, pc, req, menu, order, resp, fx>>
    /\ UNCHANGED relayVars

Expire(k) ==
    /\ store[k] # Absent
    /\ store' = [store EXCEPT ![k] = Absent]
    /\ fx' = [w \in Workers |->
                 IF InFlight(w) /\ req[w].RestaurantID = k
                 THEN [fx[w] EXCEPT !.stale = TRUE] ELSE fx[w]]
    /\ UNCHANGED <<menuFile, orders, notifications, nreq, pc, req, menu, order, resp>>
    /\ UNCHANGED relayVars

Next ==
    \/ \E w \in Workers :
          \/ \E r \in MenuRequests : getMenu(w, r)
          \/ fetchMenuFromJSON(w)
          \/ getMenuSet(w)
          \/ getMenuReply(w)
          \/ \E r \in OrderRequests : placeOrder(w, r)
          \/ fetchMenuFromFile(w)
          \/ fetchMenuFromFileSet(w)
          \/ placeOrderPublish(w)
          \/ \E r \in AcceptRequests : acceptOrder(w, r)
          \/ \E r \in PickupRequests : confirmPickup(w, r)
          \/ \E r \in DeliverRequests : confirmDelivery(w, r)
          \/ \E r \in NotificationRequests : sendNotification(w, r)
    \/ RewriteMenuFile
    \/ \E k \in RestaurantIds : Expire(k)

Spec == Init /\ [][Next]_vars

(***************************************************************************)
(* What the claims speak of.                                               *)
(***************************************************************************)
Lifecycle == {"placeOrder", "acceptOrder", "confirmPickup", "confirmDelivery"}

Answered(w) == pc[w] = "done"

Succeeded(w) == Answered(w) /\ resp[w].code = StatusOK

Rejected(w) == Answered(w) /\ resp[w].code = StatusBadRequest

Key(w) == req[w].RestaurantID

\* The transition an operation stands for and the status its response names.
TransitionOf(op) ==
    CASE op = "placeOrder" -> "created"
      [] op = "acceptOrder" -> "accepted"
      [] op = "confirmPickup" -> "picked_up"
      [] op = "confirmDelivery" -> "delivered"

StatusOf(op) ==
    CASE op = "placeOrder" -> "created"
      [] op = "acceptOrder" -> "accepted"
      [] op = "confirmPickup" -> "picked_up"
      [] op = "confirmDelivery" -> "Delivered"

\* The transition and the order id an event's text names.
EventTransition(payload) ==
    IF payload[1] = "Order Created: " THEN "created"
    ELSE IF payload[Len(payload)] = " Accept Order" THEN "accepted"
    ELSE IF payload[Len(payload)] = " Confirm Pickup" THEN "picked_up"
    ELSE IF payload[Len(payload)] = " Delivered" THEN "delivered"
    ELSE "unknown"

EventOrderId(payload) == payload[2]

\* The order id of the operation worker w has answered.
OrderIdOf(w) ==
    IF req[w].op = "placeOrder" THEN resp[w].order_id ELSE req[w].OrderID

InTopic(topic, payload) == \E i \in 1 .. Len(topic) : topic[i] = payload

(***************************************************************************)
(* C1: a lifecycle operation (placeOrder, acceptOrder, confirmPickup,      *)
(* confirmDelivery) that answers 200 has appended exactly one event to the *)
(* order topic in that call; the event names the operation's order id and  *)
(* its transition, the response names the matching status, the call        *)
(* appended nothing to the notification topic, and its publish returned    *)
(* nil.  No call appends more than one event.                              *)
(***************************************************************************)
C1_SuccessPublishedOnce ==
    /\ \A w \in Workers :
          Succeeded(w) /\ req[w].op \in Lifecycle =>
             /\ Len(fx[w].pubs) = 1
             /\ EventTransition(fx[w].pubs[1]) = TransitionOf(req[w].op)
             /\ EventOrderId(fx[w].pubs[1]) = OrderIdOf(w)
             /\ InTopic(orders, fx[w].pubs[1])
             /\ resp[w].status = StatusOf(req[w].op)
             /\ fx[w].notis = <<>>
             /\ fx[w].pubOk
    /\ Len(orders) <= nreq

\* confirmDelivery of order "0" answered {status: "Delivered"} and the order
\* topic holds the event naming order "0" as delivered.
C1_Witness ==
    \E w \in Workers :
       /\ Succeeded(w)
       /\ req[w].op = "confirmDelivery"
       /\ req[w].OrderID = "0"
       /\ resp[w].status = "Delivered"
       /\ fx[w].pubs = << <<"Order ", "0", " Delivered">> >>
       /\ InTopic(orders, <<"Order ", "0", " Delivered">>)

(***************************************************************************)
(* C5: placeOrder with an empty restaurant id or with no items list        *)
(* answers 400 in its first step: the call never stands between two steps, *)
(* it reads and writes no cache entry, reads no menu.json and appends      *)
(* nothing to a topic.                                                     *)
(***************************************************************************)
C5_CreateRejectedUntouched ==
    \A w \in Workers :
       /\ req[w].op = "placeOrder"
       /\ req[w].bindOk
       /\ req[w].RestaurantID = "" \/ req[w].Items.nil
       => /\ Rejected(w)
          /\ fx[w].read = ""
          /\ fx[w].loads = 0
          /\ fx[w].sets = 0
          /\ fx[w].cache = {}
          /\ fx[w].pubs = <<>>
          /\ fx[w].notis = <<>>

\* placeOrder for restaurant r1 with no items list was rejected, and so was
\* placeOrder with items and no restaurant id.
C5_Witness ==
    \E w, v \in Workers :
       /\ req[w].op = "placeOrder" /\ req[w].bindOk
       /\ req[w].RestaurantID = "r1" /\ req[w].Items.nil
       /\ Rejected(w)
       /\ req[v].op = "placeOrder" /\ req[v].bindOk
       /\ req[v].RestaurantID = "" /\ ~req[v].Items.nil
       /\ Rejected(v)

(***************************************************************************)
(* C7: a lifecycle operation that answers 400 has appended nothing to a    *)
(* topic and changed no cache entry in that call; acceptOrder with an      *)
(* empty order id or restaurant id, and confirmDelivery with an empty      *)
(* order id or rider id, answer 400.                                       *)
(***************************************************************************)
C7_ValidationBeforeEffects ==
    \A w \in Workers :
       /\ Rejected(w) /\ req[w].op \in Lifecycle =>
             /\ fx[w].pubs = <<>>
             /\ fx[w].notis = <<>>
             /\ fx[w].cache = {}
             /\ fx[w].sets = 0
       /\ /\ Answered(w)
          /\ req[w].op = "acceptOrder"
          /\ req[w].OrderID = "" \/ req[w].RestaurantID = ""
          => Rejected(w)
       /\ /\ Answered(w)
          /\ req[w].op = "confirmDelivery"
          /\ req[w].OrderID = "" \/ req[w].RiderID = ""
          => Rejected(w)

\* acceptOrder with no order id was rejected after another call had
\* published, and the topic holds that one event only.
C7_Witness ==
    \E w, v \in Workers :
       /\ Rejected(w)
       /\ req[w].op = "acceptOrder" /\ req[w].bindOk
       /\ req[w].OrderID = "" /\ req[w].RestaurantID = "r1"
       /\ Succeeded(v) /\ req[v].op = "confirmDelivery"
       /\ orders = fx[v].pubs
       /\ nreq = 2

(***************************************************************************)
(* C9: a call whose read of Redis failed with an error other than          *)
(* redis.Nil has answered 500 without reading menu.json, calling Set,      *)
(* changing the store or publishing; a call reads menu.json only after     *)
(* Redis reported its key absent.                                          *)
(***************************************************************************)
C9_ReadErrorIsNoMiss ==
    \A w \in Workers :
       /\ fx[w].read = "error" =>
             /\ Answered(w)
             /\ resp[w].code = StatusInternalServerError
             /\ fx[w].loads = 0
             /\ fx[w].sets = 0
             /\ fx[w].cache = {}
             /\ fx[w].pubs = <<>>
       /\ pc[w] \in {"fetchMenuFromFile", "fetchMenuFromJSON", "set", "getMenuSet"}
             => fx[w].read = "redis.Nil"
       /\ fx[w].loads > 0 \/ fx[w].sets > 0 => fx[w].read = "redis.Nil"

\* A placeOrder and a getMenu whose reads of Redis failed were answered 500,
\* the key's entry being in the store.
C9_Witness ==
    \E w, v \in Workers :
       /\ fx[w].read = "error" /\ req[w].op = "placeOrder"
       /\ fx[v].read = "error" /\ req[v].op = "getMenu"
       /\ resp[v].error = "Redis error"
       /\ resp[w].code = StatusInternalServerError

\* The catalog has no record for k: the file is unreadable or malformed, or
\* holds another restaurant's menu.
FetchFails(f, k) == f.kind # "json" \/ f.rec.RestaurantID # k

(***************************************************************************)
(* C8: a call that read menu.json and found it unreadable, malformed or    *)
(* holding another restaurant's menu has answered 500; it called no Set    *)
(* and none of its steps changed the store.                                *)
(***************************************************************************)
C8_FetchFailureWritesNothing ==
    \A w \in Workers :
       fx[w].loads > 0 /\ FetchFails(fx[w].cat, Key(w)) =>
          /\ Answered(w)
          /\ resp[w].code = StatusInternalServerError
          /\ resp[w].error \in {"Failed to fetch menu", "Failed to fetch restaurant menu"}
          /\ fx[w].sets = 0
          /\ fx[w].wrote = Absent
          /\ fx[w].cache = {}
          /\ fx[w].pubs = <<>>

\* Two calls for r2 read a file holding r1's menu, resp. a malformed file;
\* both failed and r2 has no entry.
C8_Witness ==
    \E w, v \in Workers :
       /\ Answered(w) /\ fx[w].loads = 1 /\ Key(w) = "r2"
       /\ fx[w].cat = SeedFile(MenuR1)
       /\ Answered(v) /\ fx[v].loads = 1 /\ Key(v) = "r2"
       /\ fx[v].cat = Malformed
       /\ resp[w].code = StatusInternalServerError
       /\ resp[v].code = StatusInternalServerError
       /\ store["r2"] = Absent

(***************************************************************************)
(* C2: a call that took the miss path to its end (Redis reported the key   *)
(* absent, menu.json held the key's menu, Set was called) holds the record *)
(* the catalog held for its key when it read it, getMenu answers with that *)
(* record, and the document handed to Set, like every entry the call       *)
(* changed in the store, is under its key and decodes to that record.      *)
(***************************************************************************)
C2_MissReturnsCatalogRecord ==
    \A w \in Workers :
       fx[w].sets > 0 =>
          /\ fx[w].read = "redis.Nil"
          /\ fx[w].cat.kind = "json"
          /\ fx[w].cat.rec.RestaurantID = Key(w)
          /\ menu[w] = fx[w].cat.rec
          /\ MenuValid(fx[w].wrote)
          /\ UnmarshalMenu(fx[w].wrote) = fx[w].cat.rec
          /\ \A c \in fx[w].cache :
                c[1] = Key(w) /\ c[2] = fx[w].wrote
          /\ Answered(w) /\ req[w].op = "getMenu" =>
                resp[w].code = StatusOK /\ resp[w].menu = fx[w].cat.rec

\* getMenu for r1 went through the miss path, wrote the entry and answered
\* with the catalog's menu.
C2_Witness ==
    \E w \in Workers :
       /\ Answered(w) /\ req[w].op = "getMenu" /\ Key(w) = "r1"
       /\ fx[w].sets = 1
       /\ fx[w].cache = {<<"r1", fx[w].wrote>>}
       /\ store["r1"] = fx[w].wrote
       /\ resp[w].menu = MenuR1

(***************************************************************************)
(* C3: a Get that has its record in hand (getMenuFromCache has returned to *)
(* placeOrder, getMenu is about to answer) after a hit or after writing    *)
(* the entry itself, whose key has an entry that did not expire during the *)
(* call, holds the record of that entry, the most recent population of the *)
(* key.                                                                    *)
(***************************************************************************)
C3_GetReturnsLatestPopulation ==
    \A w \in Workers :
       /\ pc[w] \in {"price", "getMenuReply"}
       /\ fx[w].read = "hit" \/ fx[w].cache # {}
       /\ ~fx[w].stale
       /\ store[Key(w)] # Absent
       => menu[w] = UnmarshalMenu(store[Key(w)])

(***************************************************************************)
(* C10: two placeOrder calls that both answered 200 were assigned          *)
(* different order ids.                                                    *)
(***************************************************************************)
C10_OrderIdsUnique ==
    \A w, v \in Workers :
       /\ w # v
       /\ Succeeded(w) /\ req[w].op = "placeOrder"
       /\ Succeeded(v) /\ req[v].op = "placeOrder"
       => /\ resp[w].order_id # resp[v].order_id
          /\ EventOrderId(fx[w].pubs[1]) # EventOrderId(fx[v].pubs[1])

(***************************************************************************)
(* Create alone: placeOrder calls, one per worker, for the restaurant of   *)
(* a menu.json that does not change, the cache empty at the start and no   *)
(* entry expiring.  The menus and item lists are those of the pricing      *)
(* scenarios, and a menu that lists one id twice.                          *)
(***************************************************************************)
MenuTwice ==
    RestaurantMenu("r1", Slice(<<MenuItem("m1", "Pad Thai", 10, "noodles"),
                                 MenuItem("m1", "Pad Thai (large)", 7, "")>>))

CreateMenus == SeedMenus \cup {MenuTwice}

CreateItemLists ==
    { Slice(<<>>),
      Slice(<<OrderItem("m1", 2), OrderItem("m2", 1)>>),
      Slice(<<OrderItem("m1", 2), OrderItem("m2", 1), OrderItem("m9", 3)>>) }

CreateRequests(rid) ==
    { Request("placeOrder", TRUE, rid, items, "", "", "") : items \in CreateItemLists }

InitCreate ==
    /\ InitRelayVars
    /\ menuFile \in {SeedFile(m) : m \in CreateMenus}
    /\ store = [k \in RestaurantIds |-> Absent]
    /\ orders = <<>>
    /\ notifications = <<>>
    /\ nreq = 0
    /\ pc = [w \in Workers |-> "idle"]
    /\ req = [w \in Workers |-> NoRequest]
    /\ menu = [w \in Workers |-> ZeroMenu]
    /\ order = [w \in Workers |-> ZeroOrder]
    /\ resp = [w \in Workers |-> NoResponse]
    /\ fx = [w \in Workers |-> NoEffects]

NextCreate ==
    \E w \in Workers :
       \/ \E r \in CreateRequests(menuFile.rec.RestaurantID) :
             pc[w] = "idle" /\ placeOrder(w, r)
       \/ fetchMenuFromFile(w)
       \/ fetchMenuFromFileSet(w)
       \/ placeOrderPublish(w)

SpecCreate == InitCreate /\ [][NextCreate]_vars

Priced(w) == Answered(w) /\ order[w].Status = "created"

\* The first menu entry with the given id (0: none), and the sum the claim
\* names.
RECURSIVE FindEntry(_, _, _)
FindEntry(entries, id, j) ==
    IF j > Len(entries) THEN 0
    ELSE IF entries[j].ID = id THEN j
    ELSE FindEntry(entries, id, j + 1)

RECURSIVE SumOfMatched(_, _, _)
SumOfMatched(items, entries, i) ==
    IF i > Len(items) THEN 0
    ELSE LET j == FindEntry(entries, items[i].MenuID, 1)
         IN  (IF j = 0 THEN 0 ELSE entries[j].Price * items[i].Quantity)
             + SumOfMatched(items, entries, i + 1)

(***************************************************************************)
(* C4: the total placeOrder computes is the sum, over the requested items, *)
(* of price * quantity of the menu entry found for the item's id, and 0    *)
(* for an item whose id the menu does not have; such an item does not      *)
(* reject the order.                                                       *)
(***************************************************************************)
C4_TotalIsSumOfMatched ==
    \A w \in Workers :
       Priced(w) =>
          /\ order[w].TotalAmount =
                SumOfMatched(req[w].Items.elems, menu[w].Menu.elems, 1)
          /\ fx[w].pubOk => Succeeded(w)

(***************************************************************************)
(* C6: placeOrder calls for one restaurant whose menu was never cached,    *)
(* running concurrently: each call that prices its order computes the      *)
(* total the pricing gives for the catalog's menu, as a call running alone *)
(* does, and an entry left in the cache is under the restaurant's key and  *)
(* decodes to the catalog's menu.                                          *)
(***************************************************************************)
C6_StampedeKeepsPricing ==
    /\ \A w \in Workers :
          Priced(w) =>
             /\ menu[w] = menuFile.rec
             /\ order[w].TotalAmount = totalAmount(req[w].Items, menuFile.rec)
    /\ \A k \in RestaurantIds :
          store[k] # Absent =>
             /\ k = menuFile.rec.RestaurantID
             /\ MenuValid(store[k])
             /\ UnmarshalMenu(store[k]) = menuFile.rec

\* Both calls missed, both read menu.json and both called Set; each
\* priced m1 x 2 + m2 x 1 (+ m9 x 3) at 25 and the entry is r1's menu.
C6_Witness ==
    /\ menuFile = SeedFile(MenuR1)
    /\ \A w \in Workers :
          /\ Succeeded(w)
          /\ fx[w].loads = 1 /\ fx[w].sets = 1
          /\ order[w].TotalAmount = 25
    /\ \E w \in Workers : fx[w].cache # {}
    /\ \E w, v \in Workers : Len(req[w].Items.elems) = 2 /\ Len(req[v].Items.elems) = 3
    /\ UnmarshalMenu(store["r1"]) = MenuR1

(***************************************************************************)
(* The transitions the order topic holds for one order id, in offset       *)
(* order, and the path an order is meant to take.                          *)
(***************************************************************************)
RECURSIVE TransitionsFor(_, _, _)
TransitionsFor(topic, id, i) ==
    IF i > Len(topic) THEN <<>>
    ELSE (IF EventOrderId(topic[i]) = id THEN <<EventTransition(topic[i])>> ELSE <<>>)
         \o TransitionsFor(topic, id, i + 1)

Forward == <<"created", "accepted", "picked_up", "delivered">>

IsPrefix(s, t) == Len(s) <= Len(t) /\ s = SubSeq(t, 1, Len(s))

(***************************************************************************)
(* C11: for every order id, the transitions appended to the order topic    *)
(* come in the order created, accepted, picked_up, delivered: none is      *)
(* skipped, none is repeated and none comes after a later one.             *)
(***************************************************************************)
C11_StatusMovesForward ==
    \A i \in 1 .. Len(orders) :
       IsPrefix(TransitionsFor(orders, EventOrderId(orders[i]), 1), Forward)

\* A placeOrder call that resolved the menu, priced the order, and whose
\* publish returned an error.
PublishFailed(w) == Priced(w) /\ req[w].op = "placeOrder" /\ ~fx[w].pubOk

(***************************************************************************)
(* C12 as stated: when placeOrder's publish fails after the menu was       *)
(* resolved and the total computed, the response is an error without an    *)
(* order id, and the call has changed neither the order topic, nor the     *)
(* notification topic, nor the cache.                                      *)
(***************************************************************************)
C12_PublishFailureWritesNothing ==
    \A w \in Workers :
       PublishFailed(w) =>
          /\ resp[w].code = StatusInternalServerError
          /\ resp[w].order_id = ""
          /\ fx[w].pubs = <<>>
          /\ fx[w].notis = <<>>
          /\ fx[w].cache = {}

(***************************************************************************)
(* C12 as amended: when placeOrder's publish fails after the menu was      *)
(* resolved and the total computed, the response is an error without an    *)
(* order id and nothing was appended to the notification topic; the order  *)
(* topic holds at most one new event of the call, its own order-created    *)
(* event (appended before the error came back), and the only entry of the  *)
(* cache the call may have changed is its restaurant's, populated on the   *)
(* miss path with the menu the call read from menu.json.                   *)
(***************************************************************************)
C12_PublishFailureLeavesOnlyCache ==
    \A w \in Workers :
       PublishFailed(w) =>
          /\ resp[w].code = StatusInternalServerError
          /\ resp[w].order_id = ""
          /\ fx[w].notis = <<>>
          /\ Len(fx[w].pubs) <= 1
          /\ \A i \in 1 .. Len(fx[w].pubs) :
                fx[w].pubs[i] = publishOrderEvent(order[w], Key(w))
          /\ \A c \in fx[w].cache :
                /\ fx[w].read = "redis.Nil"
                /\ c[1] = Key(w)
                /\ c[2] = MarshalMenu(FileMenu(fx[w].cat))

\* A call missed, read r2's menu from the file, populated the cache, and
\* its publish failed with nothing appended.
C12_Witness ==
    \E w \in Workers :
       /\ PublishFailed(w)
       /\ Key(w) = "r2"
       /\ fx[w].cache # {}
       /\ fx[w].pubs = <<>>
       /\ store["r2"] = MarshalMenu(MenuR2)

Recipients == {"customer", "restaurant", "rider"}

\* What a sendNotification call that has answered did to the topics and to
\* the cache: nothing.
NotificationTouchedNothing(w) ==
    /\ fx[w].pubs = <<>> /\ fx[w].notis = <<>>
    /\ fx[w].cache = {} /\ fx[w].sets = 0 /\ fx[w].loads = 0
    /\ Succeeded(w) => resp[w].status = "sent"
    /\ Succeeded(w) \/ Rejected(w)

(***************************************************************************)
(* C13 as stated: sendNotification rejects a request exactly when its      *)
(* recipient is none of customer, restaurant, rider; rejecting or          *)
(* answering "sent", it appends nothing to either topic and leaves the     *)
(* cache as it was.                                                        *)
(***************************************************************************)
C13_RejectsExactlyUnknownRecipient ==
    \A w \in Workers :
       Answered(w) /\ req[w].op = "sendNotification" =>
          /\ Rejected(w) <=> req[w].Recipient \notin Recipients
          /\ NotificationTouchedNothing(w)

(***************************************************************************)
(* C13 as amended: sendNotification rejects a request exactly when its     *)
(* body does not bind or its recipient is none of customer, restaurant,    *)
(* rider; rejecting or answering "sent", it appends nothing to either      *)
(* topic and leaves the cache as it was.                                   *)
(***************************************************************************)
C13_RejectsUnboundOrUnknownRecipient ==
    \A w \in Workers :
       Answered(w) /\ req[w].op = "sendNotification" =>
          /\ Rejected(w) <=> (~req[w].bindOk \/ req[w].Recipient \notin Recipients)
          /\ NotificationTouchedNothing(w)

\* One call for the rider answered "sent", another for an unknown recipient
\* was rejected, and both topics are empty.
C13_Witness ==
    \E w, v \in Workers :
       /\ req[w].op = "sendNotification" /\ req[v].op = "sendNotification"
       /\ Succeeded(w) /\ req[w].Recipient = "rider" /\ resp[w].status = "sent"
       /\ Rejected(v) /\ req[v].bindOk /\ req[v].Recipient = "admin"
       /\ orders = <<>> /\ notifications = <<>>

\* Where a call stands on the miss path: before its read of menu.json, or
\* past its Set.
BeforeLoad(w) == pc[w] \in {"fetchMenuFromFile", "fetchMenuFromJSON"}

PastSet(w) == pc[w] \in {"price", "getMenuReply", "done"}

(***************************************************************************)
(* C17: every Get that observed the key absent reads menu.json itself,     *)
(* once, and (the read giving the key's menu) calls Set itself, once,      *)
(* whatever other calls for the key are doing; a Get that observed an      *)
(* entry neither reads menu.json nor calls Set nor changes the store.      *)
(* That several such loads of one key happen with no expiry between them   *)
(* is what the witness shows.                                              *)
(***************************************************************************)
C17_EveryMissLoadsAndWrites ==
    \A w \in Workers :
       /\ fx[w].read = "redis.Nil" /\ ~BeforeLoad(w) => fx[w].loads = 1
       /\ fx[w].read = "redis.Nil" /\ PastSet(w) /\ ~FetchFails(fx[w].cat, Key(w))
             => fx[w].sets = 1
       /\ fx[w].read = "hit" =>
             fx[w].loads = 0 /\ fx[w].sets = 0 /\ fx[w].cache = {}
       /\ fx[w].loads <= 1 /\ fx[w].sets <= 1

\* Two calls for r1 in flight together, no expiry since either began: one
\* has observed the miss, read menu.json and written the entry; the other,
\* which observed the miss before that write, has read menu.json as well
\* and is about to write the entry again.
C17_Witness ==
    \E w, v \in Workers :
       /\ w # v /\ Key(w) = "r1" /\ Key(v) = "r1"
       /\ pc[w] \in {"price", "getMenuReply"}
       /\ fx[w].read = "redis.Nil" /\ fx[w].loads = 1 /\ fx[w].sets = 1
       /\ fx[w].cache # {} /\ ~fx[w].stale
       /\ pc[v] \in {"set", "getMenuSet"}
       /\ fx[v].read = "redis.Nil" /\ fx[v].loads = 1 /\ ~fx[v].stale
       /\ store["r1"] = MarshalMenu(MenuR1)

\* A call for r1 found the entry and answered from it.
C17_WitnessHit ==
    \E w \in Workers :
       Key(w) = "r1" /\ Succeeded(w) /\ fx[w].read = "hit" /\ fx[w].loads = 0

\* The record menu.json holds for key k (the zero menu: none).
CatalogRecord(f, k) == IF FetchFails(f, k) THEN ZeroMenu ELSE f.rec

(***************************************************************************)
(* C18: an entry written to the cache equals, at the step that writes it,  *)
(* the record menu.json holds for its key at that step.                    *)
(***************************************************************************)
C18_EntryCurrentWhenWritten ==
    [][\A k \in RestaurantIds :
          store'[k] # store[k] /\ store'[k] # Absent =>
             /\ ~FetchFails(menuFile, k)
             /\ MenuValid(store'[k])
             /\ UnmarshalMenu(store'[k]) = CatalogRecord(menuFile, k)]_vars

\* How a placeOrder call's menu resolution ended: with a menu, or failed
\* (the read of Redis failed, or menu.json gave no menu for the key).
MenuResolved(w) ==
    \/ fx[w].read = "hit"
    \/ fx[w].read = "redis.Nil" /\ fx[w].loads = 1 /\ ~FetchFails(fx[w].cat, Key(w))

ResolutionFailed(w) ==
    \/ fx[w].read = "error"
    \/ fx[w].loads > 0 /\ FetchFails(fx[w].cat, Key(w))

(***************************************************************************)
(* C19: a placeOrder call that has appended its event had a valid request, *)
(* a resolved menu and a priced order before, and the event names the      *)
(* order's id, its restaurant and the total computed from the resolved     *)
(* menu; a call whose menu resolution failed answers with the fetch error  *)
(* and has appended nothing.                                               *)
(***************************************************************************)
C19_PublishAfterPricing ==
    \A w \in Workers :
       req[w].op = "placeOrder" =>
          /\ fx[w].pubs # <<>> =>
                /\ req[w].bindOk /\ ~OrderInvalid(req[w])
                /\ MenuResolved(w)
                /\ order[w].Status = "created"
                /\ order[w].TotalAmount = totalAmount(req[w].Items, menu[w])
                /\ fx[w].pubs =
                      << <<"Order Created: ", order[w].OrderID, " | Restaurant: ",
                           Key(w), " | Total: ", FormatFloat2(order[w].TotalAmount)>> >>
          /\ ResolutionFailed(w) =>
                /\ Answered(w)
                /\ resp[w] = ErrorResponse(StatusInternalServerError,
                                           "Failed to fetch restaurant menu")
                /\ fx[w].pubs = <<>>

\* One call priced its order at 25 and appended the event naming that
\* total; another call's menu resolution failed and the topic holds the one
\* event.
C19_Witness ==
    \E w, v \in Workers :
       /\ req[w].op = "placeOrder" /\ req[v].op = "placeOrder"
       /\ Succeeded(w) /\ order[w].TotalAmount = 25
       /\ fx[w].pubs[1][6] = "25.00"
       /\ ResolutionFailed(v) /\ Answered(v)
       /\ Len(orders) = 1

(***************************************************************************)
(* The relay: consumeOrderDeliveredEvent, started by main as a goroutine,  *)
(* reads "orders" as a member of the group "notification-service-group"    *)
(* and writes to "order-delivered".  Messages are numbered from 1 in the   *)
(* order of the topic; the reader has fetched relay.offset of them, and    *)
(* the group's committed offset says how many a new reader skips.          *)
(***************************************************************************)
\* Mutant: the notification is the event's text alone.
NotificationBare(message) == message

\* "Notification: " + message
Notification(message) == <<"Notification: ">> \o message

\* Mutant: no commit reaches the group.
CommitMessagesNever(c, n, failing) == c

\* r.CommitMessages(ctx, msg), for message number n: the group's offset
\* after it.  ReadMessage of a reader with a GroupID makes the same commit
\* before it returns the message.
CommitMessages(c, n, failing) == IF failing THEN c ELSE n

\* Mutant: a new reader starts at the first message of the topic.
StartOffsetFirst(c) == 0

\* kafka.NewReader with a GroupID: the reader starts after the messages the
\* group has committed (at the first message when it committed none).
StartOffset(c) == c

\* Mutant: the error is logged and the process runs on.
FatalfLogsOnly(p) == p

\* log.Fatalf: the message is logged and os.Exit(1) ends the process.
Fatalf(p) == "fatal"

workerVars == <<nreq, pc, req, menu, order, resp, fx>>

\* msg, err := r.ReadMessage(...): an error is fatal; otherwise the call
\* blocks until the topic has a message past the reader's offset, commits
\* it and returns it.
ReadMessage ==
    /\ proc = "up" /\ relay.at = "ReadMessage"
    /\ \E err \in BOOLEAN :
          IF err
          THEN /\ hist.stops < MaxStops
               /\ proc' = Fatalf(proc)
               /\ relay' = [relay EXCEPT !.err = TRUE]
               /\ hist' = [hist EXCEPT !.stops = @ + 1]
               /\ UNCHANGED committed
          ELSE /\ relay.offset < Len(orders)
               /\ committed' = CommitMessages(committed, relay.offset + 1, FALSE)
               /\ relay' = [at |-> "CommitMessages", offset |-> relay.offset + 1,
                            msg |-> relay.offset + 1, err |-> FALSE]
               /\ UNCHANGED <<proc, hist>>
    /\ UNCHANGED <<menuFile, store, orders, notifications>>
    /\ UNCHANGED workerVars

\* r.CommitMessages(context.Background(), msg), its error dropped.
CommitMessagesStep ==
    /\ proc = "up" /\ relay.at = "CommitMessages"
    /\ \E failing \in BOOLEAN :
          committed' = CommitMessages(committed, relay.msg, failing)
    /\ relay' = [relay EXCEPT !.at = "processOrderDeliveredEvent"]
    /\ UNCHANGED <<menuFile, store, orders, notifications, proc, hist>>
    /\ UNCHANGED workerVars

\* processOrderDeliveredEvent(string(msg.Value)): one WriteMessages to
\* "order-delivered", its error dropped, and back to ReadMessage.
processOrderDeliveredEvent ==
    /\ proc = "up" /\ relay.at = "processOrderDeliveredEvent"
    /\ \E out \in WriteOutcomes :
          /\ notifications' =
                WriteMessages(notifications, Notification(orders[relay.msg]), out)
          /\ hist' = [hist EXCEPT
                         !.derived = @ \o [i \in 1 .. (Len(notifications') - Len(notifications))
                                              |-> relay.msg],
                         !.dropped = @ \/ out # "ok"]
    /\ relay' = [relay EXCEPT !.at = "ReadMessage", !.msg = 0]
    /\ UNCHANGED <<menuFile, store, orders, proc, committed>>
    /\ UNCHANGED workerVars

\* The process is killed: the handlers in flight and the relay stop where
\* they are.
Crash ==
    /\ proc = "up"
    /\ hist.stops < MaxStops
    /\ proc' = "crashed"
    /\ hist' = [hist EXCEPT !.stops = @ + 1,
                            !.lost = @ \cup ({relay.msg} \ {0})]
    /\ UNCHANGED <<menuFile, store, orders, notifications, committed, relay>>
    /\ UNCHANGED workerVars

\* The process is started again: main runs, no handler is in flight, and
\* the relay's new reader starts at the group's committed offset.  Redis,
\* the topics and menu.json are as the old process left them.
Restart ==
    /\ proc # "up"
    /\ proc' = "up"
    /\ relay' = RelayStart(StartOffset(committed))
    /\ pc' = [w \in Workers |-> "idle"]
    /\ req' = [w \in Workers |-> NoRequest]
    /\ menu' = [w \in Workers |-> ZeroMenu]
    /\ order' = [w \in Workers |-> ZeroOrder]
    /\ resp' = [w \in Workers |-> NoResponse]
    /\ fx' = [w \in Workers |-> NoEffects]
    /\ UNCHANGED <<menuFile, store, orders, notifications, nreq, committed, hist>>

\* The requests of the runs of the relay: the four lifecycle operations,
\* their bodies well-formed.
RelayOrderRequests ==
    { Request("placeOrder", TRUE, "r1",
              Slice(<<OrderItem("m1", 2), OrderItem("m2", 1)>>), "", "", "") }

RelayAcceptRequests == { Request("acceptOrder", TRUE, "r1", NilSlice, "0", "", "") }

RelayPickupRequests == { Request("confirmPickup", TRUE, "", NilSlice, "0", "rd1", "") }

RelayDeliverRequests == { Request("confirmDelivery", TRUE, "", NilSlice, "0", "rd1", "") }

InitRelay ==
    /\ InitRelayVars
    /\ menuFile = SeedFile(MenuR1)
    /\ store = [k \in RestaurantIds |-> Absent]
    /\ orders = <<>>
    /\ notifications = <<>>
    /\ nreq = 0
    /\ pc = [w \in Workers |-> "idle"]
    /\ req = [w \in Workers |-> NoRequest]
    /\ menu = [w \in Workers |-> ZeroMenu]
    /\ order = [w \in Workers |-> ZeroOrder]
    /\ resp = [w \in Workers |-> NoResponse]
    /\ fx = [w \in Workers |-> NoEffects]

NextRelay ==
    \/ \E w \in Workers :
          \/ \E r \in RelayOrderRequests : placeOrder(w, r)
          \/ fetchMenuFromFile(w)
          \/ fetchMenuFromFileSet(w)
          \/ placeOrderPublish(w)
          \/ \E r \in RelayAcceptRequests : acceptOrder(w, r)
          \/ \E r \in RelayPickupRequests : confirmPickup(w, r)
          \/ \E r \in RelayDeliverRequests : confirmDelivery(w, r)
    \/ ReadMessage
    \/ CommitMessagesStep
    \/ processOrderDeliveredEvent
    \/ Crash
    \/ Restart

SpecRelay == InitRelay /\ [][NextRelay]_vars

\* The relay's steps that go on with the loop, and the specification in
\* which the scheduler lets the relay goroutine run whenever it can.
RelayProgress ==
    \/ ReadMessage /\ ~relay'.err
    \/ CommitMessagesStep
    \/ processOrderDeliveredEvent

SpecRelayFair == InitRelay /\ [][NextRelay]_vars /\ WF_vars(RelayProgress)

\* The numbers of the order events the notifications were made from.
Derived == {hist.derived[j] : j \in 1 .. Len(hist.derived)}

\* The notification made from order event i is in the notification topic.
Notified(i) ==
    \E j \in 1 .. Len(notifications) :
       /\ hist.derived[j] = i
       /\ notifications[j] = <<"Notification: ">> \o orders[i]

\* The process stopped, or a publish of a notification returned an error.
Faulted == hist.stops > 0 \/ hist.dropped

(***************************************************************************)
(* C14: when the relay publishes the notification made from a message,     *)
(* the group's committed offset already covers that message; a message     *)
(* that was in the relay's hands when the process stopped is covered by    *)
(* the committed offset, so the reader of the restarted process starts     *)
(* past it, never has it in hand again, and no notification is ever made   *)
(* from it.                                                                *)
(***************************************************************************)
C14_CommitBeforePublish ==
    /\ relay.at = "processOrderDeliveredEvent" => committed >= relay.msg
    /\ \A i \in Derived : committed >= i
    /\ \A i \in hist.lost :
          /\ committed >= i
          /\ i \notin Derived
          /\ proc = "up" => relay.offset >= i /\ relay.msg # i

\* The process stopped with message 1 committed and not yet published; it
\* was started again, and the relay has since read and published message 2
\* while message 1 has no notification.
C14_Witness ==
    /\ proc = "up" /\ hist.stops = 1
    /\ hist.lost = {1}
    /\ Len(orders) = 2
    /\ hist.derived = <<2>>
    /\ relay.at = "ReadMessage" /\ relay.offset = 2

(***************************************************************************)
(* C16: the notification topic holds, message for message, the             *)
(* notifications made from order events whose numbers strictly increase    *)
(* along the topic: no order event is notified twice and none out of       *)
(* order, whether publishes fail or the process stops and starts again.    *)
(***************************************************************************)
C16_NotificationsInOrderAtMostOnce ==
    /\ Len(hist.derived) = Len(notifications)
    /\ \A j \in 1 .. Len(notifications) :
          /\ hist.derived[j] \in 1 .. Len(orders)
          /\ notifications[j] = <<"Notification: ">> \o orders[hist.derived[j]]
    /\ \A j, k \in 1 .. Len(hist.derived) :
          j < k => hist.derived[j] < hist.derived[k]

\* Message 1 was notified, the process stopped and was started again, and
\* message 2 was notified by the new process.
C16_Witness ==
    /\ proc = "up" /\ hist.stops = 1
    /\ hist.lost = {}
    /\ hist.derived = <<1, 2>>
    /\ Len(notifications) = 2

(***************************************************************************)
(* C20: an error of the relay's ReadMessage ends the process, and while    *)
(* the process is ended by it nothing runs: no message is appended to      *)
(* either topic, the relay does not move, no request is begun or carried   *)
(* on, and nothing is committed or written to the cache.                   *)
(***************************************************************************)
C20_ReadErrorEndsProcess ==
    [][/\ relay'.err => proc' = "fatal"
       /\ proc = "fatal" => UNCHANGED <<orders, notifications, store, committed, nreq>>
       /\ proc = "fatal" /\ proc' = "fatal" => UNCHANGED <<relay, pc, resp>>]_vars

\* ReadMessage failed while a placeOrder call was in flight and an event
\* was in the topic: the process is ended with the call unanswered.
C20_Witness ==
    /\ proc = "fatal" /\ relay.err
    /\ Len(orders) = 1
    /\ \E w \in Workers : pc[w] = "price"

(***************************************************************************)
(* C15: with the relay goroutine scheduled fairly, every event appended to *)
(* the order topic, whatever its kind, is eventually followed by its       *)
(* notification ("Notification: " and the event's text) in the             *)
(* notification topic, unless the process stops or a publish of a          *)
(* notification returns an error.                                          *)
(***************************************************************************)
C15_EveryEventNotified ==
    \A i \in 1 .. MaxRequests :
       (Len(orders) >= i) ~> (Notified(i) \/ Faulted)

\* An order-created event and an accepted event are both in the order
\* topic and both notified, in a run without a stop and without a failed
\* publish.
C15_Witness ==
    /\ ~Faulted
    /\ Len(orders) = 2
    /\ {EventTransition(orders[1]), EventTransition(orders[2])} = {"created", "accepted"}
    /\ Notified(1) /\ Notified(2)

====
